---- MODULE Spec2Model ----
(***************************************************************************)
(* A model of ThreadPool (src/threadpool.py): caller threads invoking      *)
(* run / close / terminate, worker threads executing call(), the shared    *)
(* queue.Queue and the two bookkeeping lists.  Every shared-memory access  *)
(* of the source (one statement of threadpool.py) is one atomic step;      *)
(* steps that touch only thread-local variables are merged into the        *)
(* preceding shared access.                                                *)
(***************************************************************************)
EXTENDS Integers, Sequences, FiniteSets, TLC

\* ---------------------------------------------------------------- bounds
MaxTasks == 2          \* run() calls made in one behaviour
MaxWorkers == 2        \* largest max_num passed to the constructor
MaxQueueSize == 1      \* largest max_task_num passed to the constructor
MaxFlood == 2          \* StopEvents in an unbounded queue beyond which the puts
                       \* of terminate()'s loop are no longer represented

Callers == {1, 2}              \* threads that call the pool's public methods
Tasks == 1 .. MaxTasks         \* identities of the submitted (func, args, callback)
Threads == 1 .. MaxTasks       \* run() starts at most one thread per call
RetOf(t) == t                  \* the value the function of task t returns
None == 0                      \* Python's None as a callback argument
StopEvent == 0                 \* the sentinel object put on the queue
NoEvent == -1                  \* local `event` not yet assigned

VARIABLES
    max_num, maxsize,          \* constructor arguments kept by the pool
    q,                         \* self.q, head first
    cancel, terminal,          \* self.cancel, self.terminal
    generate_list, free_list,  \* self.generate_list, self.free_list
    nthreads,                  \* threads started by generate_thread so far
    wpc, event, success, result,      \* per worker: position and locals of call()
    cpc, ctask, full_size, waiting,   \* per caller: position, locals, blocked in put
    \* history of the run, read only by the properties
    nextTask, hasCb, returned, execCount, fnStatus, cbLog, cbFailed,
    closeCalled, preClose, dropped,
    termCalled, termReturned, queuedAtTerm, claimedAtTerm, postTerm
    \* returned: tasks whose run() has returned; preClose: those returned when
    \* close() was called; dropped: tasks whose run() started with cancel set;
    \* queuedAtTerm / claimedAtTerm: tasks in the queue / held by a worker when
    \* terminate() was called; postTerm: tasks whose run() started after
    \* terminate() had returned

vars == <<max_num, maxsize, q, cancel, terminal, generate_list, free_list,
          nthreads, wpc, event, success, result, cpc, ctask, full_size, waiting,
          nextTask, hasCb, returned, execCount, fnStatus, cbLog, cbFailed,
          closeCalled, preClose, dropped,
          termCalled, termReturned, queuedAtTerm, claimedAtTerm, postTerm>>

pool == <<max_num, maxsize>>
wlocals == <<event, success, result>>
hist_exec == <<execCount, fnStatus, cbLog, cbFailed>>
hist_close == <<closeCalled, preClose, dropped>>
hist_term == <<termCalled, termReturned, queuedAtTerm, claimedAtTerm, postTerm>>
hist_run == <<nextTask, hasCb, returned>>

\* ---------------------------------------------------------------- helpers
RECURSIVE Remove(_, _)
\* list.remove(x): drop the first occurrence of x
Remove(s, x) ==
    IF s = <<>> THEN <<>>
    ELSE IF Head(s) = x THEN Tail(s)
    ELSE <<Head(s)>> \o Remove(Tail(s), x)

Elems(s) == {s[i] : i \in 1 .. Len(s)}

\* a queue that treats maxsize 0 as a capacity
FullAtZero == Len(q) >= maxsize

\* queue.Queue.full(): only a queue built with a positive maxsize is ever full
Full == maxsize > 0 /\ Len(q) >= maxsize

\* tasks a worker holds: dequeued, its function or callback not yet finished
Claimed == {event[w] : w \in {x \in Threads : wpc[x] \in {"func75", "cb83"}}}

\* ---------------------------------------------------------------- construction
\* __init__: any max_num is accepted; max_task_num None/0 gives an unbounded queue
Init ==
    /\ max_num \in 0 .. MaxWorkers
    /\ maxsize \in 0 .. MaxQueueSize
    /\ q = <<>>
    /\ cancel = FALSE
    /\ terminal = FALSE
    /\ generate_list = <<>>
    /\ free_list = <<>>
    /\ nthreads = 0
    /\ wpc = [w \in Threads |-> "unborn"]
    /\ event = [w \in Threads |-> NoEvent]
    /\ success = [w \in Threads |-> FALSE]
    /\ result = [w \in Threads |-> None]
    /\ cpc = [c \in Callers |-> "idle"]
    /\ ctask = [c \in Callers |-> 0]
    /\ full_size = [c \in Callers |-> 0]
    /\ waiting = [c \in Callers |-> FALSE]
    /\ nextTask = 0
    /\ hasCb = [t \in Tasks |-> FALSE]
    /\ returned = {}
    /\ execCount = [t \in Tasks |-> 0]
    /\ fnStatus = [t \in Tasks |-> "notrun"]
    /\ cbLog = [t \in Tasks |-> <<>>]
    /\ cbFailed = {}
    /\ closeCalled = FALSE
    /\ preClose = {}
    /\ dropped = {}
    /\ termCalled = FALSE
    /\ termReturned = FALSE
    /\ queuedAtTerm = {}
    /\ claimedAtTerm = {}
    /\ postTerm = {}

\* ---------------------------------------------------------------- queue.Queue
\* Queue.get() ends with not_full.notify(): one thread blocked in put() wakes up
Notified ==
    IF \E c \in Callers : waiting[c]
    THEN {[waiting EXCEPT ![c] = FALSE] : c \in {x \in Callers : waiting[x]}}
    ELSE {waiting}

\* a LIFO queue in place of queue.Queue
GetNewest(w) ==
    /\ q # <<>>
    /\ event' = [event EXCEPT ![w] = q[Len(q)]]
    /\ q' = SubSeq(q, 1, Len(q) - 1)
    /\ waiting' \in Notified

\* q.get(): blocks while the queue is empty, then takes the head
Get(w) ==
    /\ q # <<>>
    /\ event' = [event EXCEPT ![w] = Head(q)]
    /\ q' = Tail(q)
    /\ waiting' \in Notified

\* q.put(item) by caller c: on a full queue the caller blocks in not_full.wait()
\* until a get() notifies it, and then looks at the queue again
PutBlocks(c) ==
    /\ ~waiting[c]
    /\ Full
    /\ waiting' = [waiting EXCEPT ![c] = TRUE]
    /\ UNCHANGED q

PutDone(c, item) ==
    /\ ~waiting[c]
    /\ ~Full
    /\ q' = Append(q, item)
    /\ UNCHANGED waiting

\* ---------------------------------------------------------------- call()
\* a while test that sends every event to the else branch
AfterEventAlwaysElse(e) == "rm94"

\* the while test of line 71 on the local `event`
AfterEvent(e) == IF e = StopEvent THEN "rm94" ELSE "func75"

\* lines 67-68: the new thread registers itself
WStart(w) ==
    /\ wpc[w] = "start"
    /\ generate_list' = Append(generate_list, w)
    /\ wpc' = [wpc EXCEPT ![w] = "get70"]
    /\ UNCHANGED <<pool, q, cancel, terminal, free_list, nthreads, wlocals,
                   cpc, ctask, full_size, waiting,
                   hist_run, hist_exec, hist_close, hist_term>>

\* line 70: the first blocking get, then the while test
WGet70(w) ==
    /\ wpc[w] = "get70"
    /\ Get(w)
    /\ wpc' = [wpc EXCEPT ![w] = AfterEvent(event'[w])]
    /\ UNCHANGED <<pool, cancel, terminal, generate_list, free_list, nthreads,
                   success, result, cpc, ctask, full_size,
                   hist_run, hist_exec, hist_close, hist_term>>

\* After line 85 the locals event, success and result are overwritten before
\* they are read again: the model returns them to their initial values.
Forget(w) ==
    /\ event' = [event EXCEPT ![w] = NoEvent]
    /\ success' = [success EXCEPT ![w] = FALSE]
    /\ result' = [result EXCEPT ![w] = None]

\* an except branch that leaves success set
FuncOutcomeAlwaysTrue(raised, ret) ==
    IF raised THEN [success |-> TRUE, result |-> None]
    ELSE [success |-> TRUE, result |-> ret]

\* lines 74-79: what the try/except leaves in (success, result)
FuncOutcome(raised, ret) ==
    IF raised THEN [success |-> FALSE, result |-> None]
    ELSE [success |-> TRUE, result |-> ret]

\* line 81: a task with a callback goes on to invoke it
AfterFunc(t) == IF hasCb[t] THEN "cb83" ELSE "ws122"

\* lines 73-79: the task function runs to its end, returning or raising.  A
\* raise is of an exception derived from Exception, the class line 77 catches.
WFunc75(w) ==
    /\ wpc[w] = "func75"
    /\ \E raised \in BOOLEAN :
         LET t == event[w]
             o == FuncOutcome(raised, RetOf(t))
         IN /\ IF hasCb[t]
               THEN /\ success' = [success EXCEPT ![w] = o.success]
                    /\ result' = [result EXCEPT ![w] = o.result]
                    /\ UNCHANGED event
               ELSE Forget(w)
            /\ execCount' = [execCount EXCEPT ![t] = @ + 1]
            /\ fnStatus' = [fnStatus EXCEPT ![t] = IF raised THEN "raise" ELSE "ok"]
            /\ wpc' = [wpc EXCEPT ![w] = AfterFunc(t)]
    /\ UNCHANGED <<pool, q, cancel, terminal, generate_list, free_list, nthreads,
                   cpc, ctask, full_size, waiting,
                   hist_run, cbLog, cbFailed, hist_close, hist_term>>

\* a callback whose exception is not caught ends the thread
AfterCallbackUncaught(raised) == IF raised THEN "done" ELSE "ws122"

\* lines 82-85: where the worker is after the callback returned or raised
AfterCallback(raised) == "ws122"

\* lines 81-85: callback(success, result); an exception it raises (derived
\* from Exception, line 84) is discarded
WCb83(w) ==
    /\ wpc[w] = "cb83"
    /\ \E raised \in BOOLEAN :
         LET t == event[w]
         IN /\ cbLog' = [cbLog EXCEPT ![t] = Append(@, <<success[w], result[w]>>)]
            /\ cbFailed' = IF raised THEN cbFailed \cup {t} ELSE cbFailed
            /\ wpc' = [wpc EXCEPT ![w] = AfterCallback(raised)]
    /\ Forget(w)
    /\ UNCHANGED <<pool, q, cancel, terminal, generate_list, free_list, nthreads,
                   cpc, ctask, full_size, waiting,
                   hist_run, execCount, fnStatus, hist_close, hist_term>>

\* lines 87, 122: entering worker_state appends the thread to free_list
WEnter122(w) ==
    /\ wpc[w] = "ws122"
    /\ free_list' = Append(free_list, w)
    /\ wpc' = [wpc EXCEPT ![w] = "chk89"]
    /\ UNCHANGED <<pool, q, cancel, terminal, generate_list, nthreads, wlocals,
                   cpc, ctask, full_size, waiting,
                   hist_run, hist_exec, hist_close, hist_term>>

\* a worker that looks at cancel in place of terminal
MustStopOnCancel == cancel

\* line 89: the flag the worker tests before it waits for the next item
MustStop == terminal

\* lines 89-90: with terminal set the worker takes StopEvent without a get
WChk89(w) ==
    /\ wpc[w] = "chk89"
    /\ IF MustStop
       THEN /\ event' = [event EXCEPT ![w] = StopEvent]
            /\ wpc' = [wpc EXCEPT ![w] = "ws126"]
       ELSE /\ wpc' = [wpc EXCEPT ![w] = "get92"]
            /\ UNCHANGED event
    /\ UNCHANGED <<pool, q, cancel, terminal, generate_list, free_list, nthreads,
                   success, result, cpc, ctask, full_size, waiting,
                   hist_run, hist_exec, hist_close, hist_term>>

\* line 92: the blocking get inside worker_state
WGet92(w) ==
    /\ wpc[w] = "get92"
    /\ Get(w)
    /\ wpc' = [wpc EXCEPT ![w] = "ws126"]
    /\ UNCHANGED <<pool, cancel, terminal, generate_list, free_list, nthreads,
                   success, result, cpc, ctask, full_size,
                   hist_run, hist_exec, hist_close, hist_term>>

\* a worker_state without its finally clause
WExitKeepsIdle(w) ==
    /\ wpc[w] = "ws126"
    /\ wpc' = [wpc EXCEPT ![w] = AfterEvent(event[w])]
    /\ UNCHANGED <<pool, q, cancel, terminal, generate_list, free_list, nthreads,
                   wlocals, cpc, ctask, full_size, waiting,
                   hist_run, hist_exec, hist_close, hist_term>>

\* line 126: leaving worker_state removes the thread from free_list; then line 71
WExit126(w) ==
    /\ wpc[w] = "ws126"
    /\ free_list' = Remove(free_list, w)
    /\ wpc' = [wpc EXCEPT ![w] = AfterEvent(event[w])]
    /\ UNCHANGED <<pool, q, cancel, terminal, generate_list, nthreads, wlocals,
                   cpc, ctask, full_size, waiting,
                   hist_run, hist_exec, hist_close, hist_term>>

\* lines 93-94: the while's else branch removes the thread from generate_list
WRemove94(w) ==
    /\ wpc[w] = "rm94"
    /\ generate_list' = Remove(generate_list, w)
    /\ wpc' = [wpc EXCEPT ![w] = "done"]
    /\ Forget(w)
    /\ UNCHANGED <<pool, q, cancel, terminal, free_list, nthreads,
                   cpc, ctask, full_size, waiting,
                   hist_run, hist_exec, hist_close, hist_term>>

WorkerStep(w) ==
    \/ WStart(w)
    \/ WGet70(w)
    \/ WFunc75(w)
    \/ WCb83(w)
    \/ WEnter122(w)
    \/ WChk89(w)
    \/ WGet92(w)
    \/ WExit126(w)
    \/ WRemove94(w)

\* ---------------------------------------------------------------- run()
\* run() without its test of cancel
RejectsNever == FALSE

\* line 46: the only test run() makes before accepting a task
Rejects == cancel

\* lines 46-47: run(func, args, callback) is called; with cancel set it returns
RunCall(c) ==
    /\ cpc[c] = "idle"
    /\ nextTask < MaxTasks
    /\ \E cb \in BOOLEAN :
         LET t == nextTask + 1
         IN /\ nextTask' = t
            /\ hasCb' = [hasCb EXCEPT ![t] = cb]
            /\ postTerm' = IF termReturned THEN postTerm \cup {t} ELSE postTerm
            /\ dropped' = IF cancel THEN dropped \cup {t} ELSE dropped
            /\ IF Rejects
               THEN /\ returned' = returned \cup {t}
                    /\ UNCHANGED <<cpc, ctask>>
               ELSE /\ cpc' = [cpc EXCEPT ![c] = "run49a"]
                    /\ ctask' = [ctask EXCEPT ![c] = t]
                    /\ UNCHANGED returned
    /\ UNCHANGED <<pool, q, cancel, terminal, generate_list, free_list, nthreads,
                   wpc, wlocals, full_size, waiting, hist_exec,
                   closeCalled, preClose,
                   termCalled, termReturned, queuedAtTerm, claimedAtTerm>>

\* line 49, left operand: len(self.free_list) == 0
Run49a(c) ==
    /\ cpc[c] = "run49a"
    /\ cpc' = [cpc EXCEPT ![c] = IF Len(free_list) = 0 THEN "run49b" ELSE "run53"]
    /\ UNCHANGED <<pool, q, cancel, terminal, generate_list, free_list, nthreads,
                   wpc, wlocals, ctask, full_size, waiting,
                   hist_run, hist_exec, hist_close, hist_term>>

\* line 49, right operand: len(self.generate_list) < self.max_num
MaySpawn == Len(generate_list) < max_num

Run49b(c) ==
    /\ cpc[c] = "run49b"
    /\ cpc' = [cpc EXCEPT ![c] = IF MaySpawn THEN "run50" ELSE "run53"]
    /\ UNCHANGED <<pool, q, cancel, terminal, generate_list, free_list, nthreads,
                   wpc, wlocals, ctask, full_size, waiting,
                   hist_run, hist_exec, hist_close, hist_term>>

\* lines 50, 56-61: generate_thread starts a thread that will execute call()
Run50(c) ==
    /\ cpc[c] = "run50"
    /\ nthreads' = nthreads + 1
    /\ wpc' = [wpc EXCEPT ![nthreads + 1] = "start"]
    /\ cpc' = [cpc EXCEPT ![c] = "run53"]
    /\ UNCHANGED <<pool, q, cancel, terminal, generate_list, free_list,
                   wlocals, ctask, full_size, waiting,
                   hist_run, hist_exec, hist_close, hist_term>>

\* lines 51-53: self.q.put(w), then run() returns
Run53(c) ==
    /\ cpc[c] = "run53"
    /\ \/ /\ PutBlocks(c)
          /\ UNCHANGED <<cpc, ctask, returned>>
       \/ /\ PutDone(c, ctask[c])
          /\ cpc' = [cpc EXCEPT ![c] = "idle"]
          /\ ctask' = [ctask EXCEPT ![c] = 0]
          /\ returned' = returned \cup {ctask[c]}
    /\ UNCHANGED <<pool, cancel, terminal, generate_list, free_list, nthreads,
                   wpc, wlocals, full_size, nextTask, hasCb,
                   hist_exec, hist_close, hist_term>>

\* ---------------------------------------------------------------- close()
\* line 100: close() is called and sets cancel.  A pool is shut down once, by
\* close() or by terminate().
CloseCall(c) ==
    /\ cpc[c] = "idle"
    /\ ~closeCalled /\ ~termCalled
    /\ cancel' = TRUE
    /\ closeCalled' = TRUE
    /\ preClose' = returned
    /\ cpc' = [cpc EXCEPT ![c] = "close101"]
    /\ UNCHANGED <<pool, q, terminal, generate_list, free_list, nthreads,
                   wpc, wlocals, ctask, full_size, waiting,
                   hist_run, hist_exec, dropped, hist_term>>

\* line 101: the number of StopEvents close() will put
StopCount == Len(generate_list) + 1

Close101(c) ==
    /\ cpc[c] = "close101"
    /\ full_size' = [full_size EXCEPT ![c] = StopCount]
    /\ cpc' = [cpc EXCEPT ![c] = "close103"]
    /\ UNCHANGED <<pool, q, cancel, terminal, generate_list, free_list, nthreads,
                   wpc, wlocals, ctask, waiting,
                   hist_run, hist_exec, hist_close, hist_term>>

\* lines 102-104: one put of StopEvent per count, then close() returns
Close103(c) ==
    /\ cpc[c] = "close103"
    /\ \/ /\ PutBlocks(c)
          /\ UNCHANGED <<cpc, full_size>>
       \/ /\ PutDone(c, StopEvent)
          /\ full_size' = [full_size EXCEPT ![c] = @ - 1]
          /\ cpc' = [cpc EXCEPT ![c] = IF full_size[c] - 1 = 0 THEN "idle" ELSE "close103"]
    /\ UNCHANGED <<pool, cancel, terminal, generate_list, free_list, nthreads,
                   wpc, wlocals, ctask,
                   hist_run, hist_exec, hist_close, hist_term>>

\* ---------------------------------------------------------------- terminate()
\* line 110: terminate() is called and sets terminal
TermCall(c) ==
    /\ cpc[c] = "idle"
    /\ ~closeCalled /\ ~termCalled
    /\ terminal' = TRUE
    /\ termCalled' = TRUE
    /\ queuedAtTerm' = Elems(q) \ {StopEvent}
    /\ claimedAtTerm' = Claimed
    /\ cpc' = [cpc EXCEPT ![c] = "term112"]
    /\ UNCHANGED <<pool, q, cancel, generate_list, free_list, nthreads,
                   wpc, wlocals, ctask, full_size, waiting,
                   hist_run, hist_exec, hist_close, termReturned, postTerm>>

\* line 112: while self.generate_list
Term112(c) ==
    /\ cpc[c] = "term112"
    /\ cpc' = [cpc EXCEPT ![c] = IF generate_list # <<>> THEN "term113" ELSE "term115"]
    /\ UNCHANGED <<pool, q, cancel, terminal, generate_list, free_list, nthreads,
                   wpc, wlocals, ctask, full_size, waiting,
                   hist_run, hist_exec, hist_close, hist_term>>

NumStops == Cardinality({i \in 1 .. Len(q) : q[i] = StopEvent})

\* line 113: self.q.put(StopEvent) inside the loop.  On an unbounded queue the
\* loop keeps putting for as long as a worker is registered; the model stops
\* representing further StopEvents once MaxFlood of them are queued.
Term113(c) ==
    /\ cpc[c] = "term113"
    /\ \/ /\ PutBlocks(c)
          /\ UNCHANGED cpc
       \/ /\ maxsize = 0 /\ NumStops >= MaxFlood
          /\ ~waiting[c]
          /\ cpc' = [cpc EXCEPT ![c] = "term112"]
          /\ UNCHANGED <<q, waiting>>
       \/ /\ ~(maxsize = 0 /\ NumStops >= MaxFlood)
          /\ PutDone(c, StopEvent)
          /\ cpc' = [cpc EXCEPT ![c] = "term112"]
    /\ UNCHANGED <<pool, cancel, terminal, generate_list, free_list, nthreads,
                   wpc, wlocals, ctask, full_size,
                   hist_run, hist_exec, hist_close, hist_term>>

\* line 115: self.q.queue.clear() empties the deque (no thread is notified),
\* then terminate() returns
Term115(c) ==
    /\ cpc[c] = "term115"
    /\ q' = <<>>
    /\ termReturned' = TRUE
    /\ cpc' = [cpc EXCEPT ![c] = "idle"]
    /\ UNCHANGED <<pool, cancel, terminal, generate_list, free_list, nthreads,
                   wpc, wlocals, ctask, full_size, waiting,
                   hist_run, hist_exec, hist_close,
                   termCalled, queuedAtTerm, claimedAtTerm, postTerm>>

\* a caller inside a method goes on with it
CallerStep(c) ==
    \/ Run49a(c)
    \/ Run49b(c)
    \/ Run50(c)
    \/ Run53(c)
    \/ Close101(c)
    \/ Close103(c)
    \/ Term112(c)
    \/ Term113(c)
    \/ Term115(c)

\* ---------------------------------------------------------------- specifications
Next ==
    \/ \E c \in Callers : RunCall(c)
    \/ \E c \in Callers : CloseCall(c)
    \/ \E c \in Callers : TermCall(c)
    \/ \E c \in Callers : CallerStep(c)
    \/ \E w \in Threads : WorkerStep(w)

Spec == Init /\ [][Next]_vars

\* Only run() calls and one close(), on a pool built with max_num >= 1.
InitClose == Init /\ max_num >= 1

CloseStep(c) ==
    \/ Run49a(c)
    \/ Run49b(c)
    \/ Run50(c)
    \/ Run53(c)
    \/ Close101(c)
    \/ Close103(c)

NextClose ==
    \/ \E c \in Callers : RunCall(c)
    \/ \E c \in Callers : CloseCall(c)
    \/ \E c \in Callers : CloseStep(c)
    \/ \E w \in Threads : WorkerStep(w)

\* Every started thread keeps being scheduled: a worker or a caller inside a
\* method that can take its next step eventually takes it.  Nothing obliges a
\* caller to make a further call.
FairCloseSpec ==
    /\ InitClose
    /\ [][NextClose]_vars
    /\ \A w \in Threads : WF_vars(WorkerStep(w))
    /\ \A c \in Callers : WF_vars(CloseStep(c))

\* No thread inside call() or inside a pool method can take a step.
Quiescent == ~ENABLED ((\E c \in Callers : CallerStep(c)) \/ (\E w \in Threads : WorkerStep(w)))

Executing == {w \in Threads : wpc[w] = "func75"}
Min(a, b) == IF a < b THEN a ELSE b
Done(t) == execCount[t] = 1 /\ (hasCb[t] => Len(cbLog[t]) = 1)

\* ---------------------------------------------------------------- claims

\* C1: the number of workers registered in generate_list never exceeds max_num.
C1_ActiveWithinMax == Len(generate_list) <= max_num

\* C2: with only run() calls and one close() on a pool with max_num >= 1, no
\* task is executed or called back twice; every task whose run() had returned
\* when close() was called is eventually executed once and its callback invoked
\* once; and whenever generate_list has become empty after close(), that has
\* already happened.
C2_Safe ==
    /\ \A t \in Tasks : execCount[t] <= 1 /\ Len(cbLog[t]) <= 1
    /\ (closeCalled /\ generate_list = <<>> /\ \E w \in Threads : wpc[w] = "done")
          => \A t \in preClose : Done(t)

C2_DrainBeforeStop ==
    /\ []C2_Safe
    /\ \A t \in Tasks : (t \in preClose) ~> Done(t)

C2_Witness ==
    /\ closeCalled
    /\ preClose = Tasks
    /\ \E t \in Tasks : hasCb[t]
    /\ \A t \in Tasks : Done(t)
    /\ generate_list = <<>>
    /\ \E w \in Threads : wpc[w] = "done"

\* C3: the number of task functions running at the same time never exceeds
\* min(max_num, number of tasks submitted).
C3_ExecutingWithinMin == Cardinality(Executing) <= Min(max_num, nextTask)

\* C4: when close() was called after every run() call had returned, then once
\* no thread can take a further step, every thread that was started has left
\* call(): none is left blocked in q.get().
C4_AllWorkersStopAfterClose ==
    (closeCalled /\ preClose = 1 .. nextTask /\ Quiescent)
        => \A w \in Threads : wpc[w] \in {"unborn", "done"}

\* C5: a task held by a worker when terminate() is called gets its callback
\* (once the pool has come to rest), and a task still in the queue at that
\* moment is never executed and its callback never invoked.
C5_TerminateDropsQueued ==
    /\ Quiescent => \A t \in claimedAtTerm : Done(t)
    /\ \A t \in queuedAtTerm : execCount[t] = 0 /\ cbLog[t] = <<>>

\* C6: a run() call made with cancel set returns at once, leaving the queue,
\* generate_list, free_list and the threads as they were; its task is never
\* queued, never held by a caller or a worker, never executed, and its
\* callback is never invoked.
C6_Untouched ==
    \A t \in dropped :
        /\ \A i \in 1 .. Len(q) : q[i] # t
        /\ \A c \in Callers : ctask[c] # t
        /\ \A w \in Threads : event[w] # t
        /\ execCount[t] = 0
        /\ cbLog[t] = <<>>

C6_RunAfterCancelIsNoOp ==
    /\ []C6_Untouched
    /\ [][(cancel /\ nextTask' # nextTask)
            => UNCHANGED <<q, generate_list, free_list, nthreads, wpc, cpc, ctask>>]_vars

C6_Witness ==
    /\ \E t \in dropped : hasCb[t]
    /\ \E w \in Threads : wpc[w] \in {"get70", "get92"}
    /\ q = <<>>

\* C7: a task submitted by a run() that starts after terminate() has returned
\* is never enqueued, never executed, its callback never invoked, and no
\* thread is started for it.
C7_SubmitAfterTerminateNoOp ==
    \A t \in postTerm :
        /\ \A i \in 1 .. Len(q) : q[i] # t
        /\ \A c \in Callers : ctask[c] # t
        /\ execCount[t] = 0
        /\ cbLog[t] = <<>>

\* C8: a callback is invoked at most once per task, only for a task that has
\* one, with (True, the function's return value) when the function returned
\* and (False, None) when it raised; and once the worker is past line 85 a
\* task with a callback has been called back exactly once.
C8_CallbackOutcome ==
    \A t \in Tasks :
        /\ Len(cbLog[t]) <= 1
        /\ ~hasCb[t] => cbLog[t] = <<>>
        /\ cbLog[t] # <<>> =>
              \/ fnStatus[t] = "ok" /\ cbLog[t][1] = <<TRUE, RetOf(t)>>
              \/ fnStatus[t] = "raise" /\ cbLog[t][1] = <<FALSE, None>>
        /\ (hasCb[t] /\ fnStatus[t] # "notrun" /\ t \notin Claimed) => Len(cbLog[t]) = 1

C8_Witness ==
    /\ \E t \in Tasks : fnStatus[t] = "raise" /\ cbLog[t] = << <<FALSE, None>> >>
    /\ \E t \in Tasks : fnStatus[t] = "ok" /\ cbLog[t] = << <<TRUE, RetOf(t)>> >>

\* C9: a worker whose task function or callback has just finished, by
\* returning or by raising, is still registered in generate_list, has left
\* the queue as it was, and stands where a successful task leaves it: at the
\* callback if the task has one and it has not been invoked, else at the entry
\* of worker_state.
C9_FailureKeepsWorker ==
    [][\A w \in Threads :
          (wpc[w] \in {"func75", "cb83"} /\ wpc'[w] # wpc[w]) =>
             /\ wpc'[w] = IF wpc[w] = "func75" /\ hasCb[event[w]] THEN "cb83" ELSE "ws122"
             /\ \E i \in 1 .. Len(generate_list') : generate_list'[i] = w
             /\ q' = q]_vars

C9_Witness ==
    /\ nthreads = 1
    /\ fnStatus[1] = "raise" /\ 1 \in cbFailed
    /\ fnStatus[2] = "ok" /\ cbLog[2] = << <<TRUE, RetOf(2)>> >>

\* C10: no task is ever submitted to or queued on a pool whose max_num is not
\* positive, because no such pool exists.
C10_NoPoolWithoutWorkers == max_num <= 0 => (nextTask = 0 /\ q = <<>>)

\* C11: when terminate() is called with all N submitted tasks still in the
\* queue (no worker has started one) and N > max_num, at most max_num tasks
\* ever have their callback invoked, and once terminate() has returned and
\* every thread has come to rest the queue is empty.
C11_AtMostMaxCallbacks ==
    (termCalled /\ claimedAtTerm = {} /\ queuedAtTerm = 1 .. nextTask /\ nextTask > max_num)
        => /\ Cardinality({t \in Tasks : cbLog[t] # <<>>}) <= max_num
           /\ (termReturned /\ Quiescent) => q = <<>>

C13_NoSpawnAfterCancel == [][cancel => nthreads' = nthreads]_vars

\* a worker blocked in q.get() on an empty queue, at line 70 or at line 92
BlockedInGet(w) == wpc[w] \in {"get70", "get92"} /\ q = <<>>

\* C14: run() goes on to start a thread (it finds no idle worker at line 49
\* while fewer than max_num are registered) only when no worker is blocked
\* waiting for an item, a worker blocked in its first get included; and the
\* number of threads started never exceeds the number of tasks submitted.
C14_SpawnOnlyWithoutIdle ==
    /\ [][\A c \in Callers :
            (cpc[c] = "run49a" /\ cpc'[c] = "run49b" /\ Len(generate_list) < max_num)
                => ~\E w \in Threads : BlockedInGet(w)]_vars
    /\ [](nthreads <= nextTask)

\* C15: when terminate() was called after every run() had returned, each
\* submitted task being then in the queue or held by a worker, then once no
\* thread can take a further step every thread that was started has left
\* call(): none is left blocked in q.get(), a thread that had not yet
\* registered when terminate() ran included.
C15_AllWorkersStopAfterTerminate ==
    (termCalled /\ queuedAtTerm \cup claimedAtTerm = 1 .. nextTask /\ Quiescent)
        => \A w \in Threads : wpc[w] \in {"unborn", "done"}

\* how far a worker that holds or has finished a task is on the way out of
\* call(); 0 for a worker that is waiting for an item or holds one it has
\* dequeued but not begun
StopRank(w) ==
    CASE wpc[w] = "func75" -> 1
      [] wpc[w] = "cb83" -> 2
      [] wpc[w] = "ws122" -> 3
      [] wpc[w] = "chk89" -> 4
      [] wpc[w] = "ws126" /\ event[w] = StopEvent -> 5
      [] wpc[w] = "rm94" -> 6
      [] wpc[w] = "done" -> 7
      [] OTHER -> 0

\* C16: with terminal set, a worker that is executing a task or has finished
\* one invokes the task's callback if it has one, then only moves on towards
\* the end of call(), its next step always possible: it never waits on the
\* queue again, never holds another task, and none of its steps takes an item
\* from the queue.
C16_NoFetchAfterTerminal ==
    [][\A w \in Threads :
          (terminal /\ StopRank(w) >= 1) =>
             /\ StopRank(w)' >= StopRank(w)
             /\ StopRank(w) < 7 => ENABLED WorkerStep(w)
             /\ (wpc'[w] # wpc[w] => q' = q)
             /\ (wpc[w] = "func75" /\ hasCb[event[w]] /\ wpc'[w] # wpc[w]) => wpc'[w] = "cb83"]_vars

C16_Witness ==
    /\ termCalled
    /\ nthreads = 1
    /\ wpc[1] = "done"
    /\ \E t \in claimedAtTerm : hasCb[t] /\ Len(cbLog[t]) = 1
    /\ \E t \in queuedAtTerm : \E i \in 1 .. Len(q) : q[i] = t

\* C17: a worker that takes an item takes the oldest one; so after close() no
\* worker dequeues a StopEvent while a task whose run() had returned when
\* close() was called is still in the queue.
C17_StopAfterEarlierTasks ==
    [][\A w \in Threads :
          (wpc[w] \in {"get70", "get92"} /\ wpc'[w] # wpc[w]) =>
             /\ event'[w] = Head(q) /\ q' = Tail(q)
             /\ (closeCalled /\ event'[w] = StopEvent)
                   => \A t \in preClose : \A i \in 1 .. Len(q) : q[i] # t]_vars

C17_Witness ==
    /\ closeCalled
    /\ preClose = Tasks
    /\ \E w \in Threads : wpc[w] = "rm94" /\ event[w] = StopEvent
    /\ \E w \in Threads : wpc[w] = "func75" /\ event[w] = MaxTasks
    /\ \E i \in 1 .. Len(q) : q[i] = StopEvent

Count(s, x) == Cardinality({i \in 1 .. Len(s) : s[i] = x})

\* C18: a worker leaves generate_list only in the step of line 94, holding
\* StopEvent, and is then out of call() for good; it enters generate_list only
\* in its first step, is listed at most once, and is listed whenever it is
\* executing a task or its callback.
C18_RemovedOnlyAtStop ==
    /\ [][\A w \in Threads :
            /\ (Count(generate_list, w) > Count(generate_list', w)) =>
                  /\ wpc[w] = "rm94" /\ event[w] = StopEvent
                  /\ wpc'[w] = "done"
            /\ (Count(generate_list, w) < Count(generate_list', w)) => wpc[w] = "start"
            /\ wpc[w] = "done" => wpc'[w] = "done"]_vars
    /\ [](\A w \in Threads :
            /\ Count(generate_list, w) <= 1
            /\ wpc[w] \in {"func75", "cb83"} => Count(generate_list, w) = 1
            /\ wpc[w] = "done" => Count(generate_list, w) = 0)

C18_Witness ==
    \E w, v \in Threads :
        /\ wpc[w] = "done" /\ Count(generate_list, w) = 0
        /\ wpc[v] = "cb83" /\ Count(generate_list, v) = 1

\* C19: every thread in free_list is in generate_list.
C19_IdleSubsetActive == \A i \in 1 .. Len(free_list) : Count(generate_list, free_list[i]) >= 1

C19_Witness ==
    /\ terminal
    /\ nthreads = 1
    /\ wpc[1] = "ws126" /\ event[1] = StopEvent
    /\ Count(free_list, 1) = 1 /\ Count(generate_list, 1) = 1
    /\ queuedAtTerm # {}
    /\ \A t \in queuedAtTerm : Count(q, t) = 1

\* C20: when terminate() was called on a pool with max_num >= 1 after every
\* run() had returned, each submitted task being then in the queue or held by
\* a worker, then once no thread can take a further step terminate() has
\* returned: its caller is not left blocked in put().
C20_TerminateReturns ==
    (termCalled /\ max_num >= 1 /\ queuedAtTerm \cup claimedAtTerm = 1 .. nextTask /\ Quiescent)
        => termReturned

====
